---- MODULE Spec2Model ----
(***************************************************************************)
(* get_relative_airmass (src/solar_energy_forecast/pvlib.py): relative     *)
(* airmass at sea level as a function of the zenith angle, under one of    *)
(* eight published approximations selected by a model string.              *)
(*                                                                         *)
(* Numbers are IEEE doubles in the program.  Here a number is NaN, an      *)
(* infinity, or a decimal float m * 10^e with an eight-digit mantissa:     *)
(* every constant of the source is exact in that form.  The arithmetic     *)
(* operators follow IEEE semantics for NaN, infinities and division by     *)
(* zero; the library functions cos, sin and the real power are tabulated   *)
(* at the arguments the sampled zenith angles produce, with the values     *)
(* the double computation returns (eight digits).                          *)
(***************************************************************************)
EXTENDS Integers, Sequences, FiniteSets, TLC

VARIABLES arg, zenith, pc, model, z, zenith_rad, am, outcome

vars == <<arg, zenith, pc, model, z, zenith_rad, am, outcome>>

\* Longest unlabeled or labeled zenith sequence drawn as an input.
MaxLen == 2

----------------------------------------------------------------------------
(* float64 values *)

NaN == [k |-> "nan", m |-> 0, e |-> 0]

PosInf == [k |-> "inf", m |-> 1, e |-> 0]

NegInf == [k |-> "inf", m |-> -1, e |-> 0]

Zero == [k |-> "fin", m |-> 0, e |-> 0]

Abs(i) == IF i < 0 THEN -i ELSE i

Sgn(i) == IF i > 0 THEN 1 ELSE IF i < 0 THEN -1 ELSE 0

RECURSIVE Pow10(_)
Pow10(n) == IF n = 0 THEN 1 ELSE 10 * Pow10(n - 1)

\* A magnitude a > 0 scaled into [10^7, 10^8), the exponent following it.
RECURSIVE NormAbs(_, _)
NormAbs(a, e) ==
    IF a >= 100000000 THEN NormAbs(a \div 10, e + 1)
    ELSE IF a < 10000000 THEN NormAbs(a * 10, e - 1)
    ELSE <<a, e>>

\* The float m * 10^e: a numeric literal of the source, digit for digit.
D(m, e) ==
    IF m = 0 THEN Zero
    ELSE LET n == NormAbs(Abs(m), e)
         IN  [k |-> "fin", m |-> Sgn(m) * n[1], e |-> n[2]]

IsNaN(x) == x.k = "nan"

IsInf(x) == x.k = "inf"

IsFinite(x) == x.k = "fin"

Neg(x) == IF IsNaN(x) THEN x ELSE [x EXCEPT !.m = -x.m]

\* x + y on finite nonzero operands: the smaller exponent is aligned to the
\* larger and digits beyond the mantissa are dropped.
AddFin(x, y) ==
    LET hi == IF x.e < y.e THEN y ELSE x
        lo == IF x.e < y.e THEN x ELSE y
        d  == hi.e - lo.e
    IN  IF d > 8 THEN hi
        ELSE D(hi.m + Sgn(lo.m) * (Abs(lo.m) \div Pow10(d)), hi.e)

Add(x, y) ==
    IF IsNaN(x) \/ IsNaN(y) THEN NaN
    ELSE IF IsInf(x) /\ IsInf(y) THEN (IF x.m = y.m THEN x ELSE NaN)
    ELSE IF IsInf(x) THEN x
    ELSE IF IsInf(y) THEN y
    ELSE IF x.m = 0 THEN y
    ELSE IF y.m = 0 THEN x
    ELSE AddFin(x, y)

Sub(x, y) == Add(x, Neg(y))

\* The leading digits of the sixteen-digit product of two mantissas, by halves.
MulFin(x, y) ==
    LET a  == Abs(x.m)
        b  == Abs(y.m)
        a1 == a \div 10000
        a0 == a % 10000
        b1 == b \div 10000
        b0 == b % 10000
        p  == a1 * b1 + ((a1 * b0 + a0 * b1 + ((a0 * b0) \div 10000)) \div 10000)
    IN  D(Sgn(x.m) * Sgn(y.m) * p, x.e + y.e + 8)

Mul(x, y) ==
    IF IsNaN(x) \/ IsNaN(y) THEN NaN
    ELSE IF IsInf(x) \/ IsInf(y)
         THEN (IF Sgn(x.m) * Sgn(y.m) = 0 THEN NaN
               ELSE IF Sgn(x.m) * Sgn(y.m) > 0 THEN PosInf ELSE NegInf)
    ELSE IF x.m = 0 \/ y.m = 0 THEN Zero
    ELSE MulFin(x, y)

\* n digits of the quotient r / den by long division.
RECURSIVE LongDiv(_, _, _, _)
LongDiv(q, r, den, n) ==
    IF n = 0 THEN q
    ELSE LongDiv(q * 10 + (r \div den), (r % den) * 10, den, n - 1)

\* x / y as numpy divides: a zero divisor gives an infinity (NaN for 0/0)
\* and a warning, never an exception.
Div(x, y) ==
    IF IsNaN(x) \/ IsNaN(y) THEN NaN
    ELSE IF IsInf(x)
         THEN (IF IsInf(y) THEN NaN
               ELSE IF x.m * (IF y.m >= 0 THEN 1 ELSE -1) > 0 THEN PosInf ELSE NegInf)
    ELSE IF IsInf(y) THEN Zero
    ELSE IF y.m = 0
         THEN (IF x.m = 0 THEN NaN ELSE IF x.m > 0 THEN PosInf ELSE NegInf)
    ELSE IF x.m = 0 THEN Zero
    ELSE D(Sgn(x.m) * Sgn(y.m) * LongDiv(0, Abs(x.m), Abs(y.m), 9), x.e - y.e - 8)

\* x > y: False when either side is NaN.
Gt(x, y) ==
    IF IsNaN(x) \/ IsNaN(y) THEN FALSE
    ELSE IF IsInf(x) THEN x.m > 0 /\ ~(IsInf(y) /\ y.m > 0)
    ELSE IF IsInf(y) THEN y.m < 0
    ELSE Sub(x, y).m > 0

----------------------------------------------------------------------------
(* numpy library functions on one float64 *)

\* pi / 180, the factor of np.radians.
PiOver180 == D(17453292, -9)

\* np.radians of one element.
Radians(x) == Mul(x, PiOver180)

\* np.cos at the radian arguments the sampled zeniths produce.  The entry for
\* np.radians(90) is the cosine of the double nearest pi/2: 6.1232339e-17.
CosTable ==
       (<<-52359870, -8>> :> [k |-> "fin", m |-> 86602540, e |-> -8])
    @@ (<<0, 0>> :> [k |-> "fin", m |-> 10000000, e |-> -7])
    @@ (<<10471975, -7>> :> [k |-> "fin", m |-> 50000000, e |-> -8])
    @@ (<<15707962, -7>> :> [k |-> "fin", m |-> 61232339, e |-> -24])
    @@ (<<15707980, -7>> :> [k |-> "fin", m |-> -17453292, e |-> -13])
    @@ (<<16580627, -7>> :> [k |-> "fin", m |-> -87155742, e |-> -9])

\* np.sin at the arguments pickering2002 produces.
SinTable ==
       (<<15714226, -7>> :> [k |-> "fin", m |-> 99999980, e |-> -8])
    @@ (<<20948540, -7>> :> [k |-> "fin", m |-> 86579557, e |-> -8])
    @@ (<<25809710, -9>> :> [k |-> "fin", m |-> 25806852, e |-> -9])
    @@ (<<52558290, -8>> :> [k |-> "fin", m |-> 50171741, e |-> -8])

\* x ** p for a positive finite x and a real exponent p, keyed by the
\* mantissas and exponents of both.
PowTable ==
       (<<10799500, -7, -16364000, -7>> :> [k |-> "fin", m |-> 88173538, e |-> -8])
    @@ (<<12000000, -5, 11000000, -7>> :> [k |-> "fin", m |-> 19368650, e |-> -5])
    @@ (<<12388500, -5, -12530000, -7>> :> [k |-> "fin", m |-> 23847756, e |-> -10])
    @@ (<<12437515, -5, -12156300, -7>> :> [k |-> "fin", m |-> 28417048, e |-> -10])
    @@ (<<12607995, -5, -16364000, -7>> :> [k |-> "fin", m |-> 36517651, e |-> -11])
    @@ (<<12674100, -5, 17540000, -7>> :> [k |-> "fin", m |-> 48810880, e |-> -4])
    @@ (<<17410000, -7, 17540000, -7>> :> [k |-> "fin", m |-> 26446063, e |-> -7])
    @@ (<<30000000, -6, 11000000, -7>> :> [k |-> "fin", m |-> 42153474, e |-> -6])
    @@ (<<33885000, -6, -12530000, -7>> :> [k |-> "fin", m |-> 12103211, e |-> -9])
    @@ (<<34375150, -6, -12156300, -7>> :> [k |-> "fin", m |-> 13567348, e |-> -9])
    @@ (<<36079950, -6, -16364000, -7>> :> [k |-> "fin", m |-> 28293719, e |-> -10])
    @@ (<<36741000, -6, 17540000, -7>> :> [k |-> "fin", m |-> 55625612, e |-> -5])
    @@ (<<38849000, -7, -12530000, -7>> :> [k |-> "fin", m |-> 18260264, e |-> -8])
    @@ (<<38850000, -7, -12530000, -7>> :> [k |-> "fin", m |-> 18259675, e |-> -8])
    @@ (<<43750500, -7, -12156300, -7>> :> [k |-> "fin", m |-> 16626537, e |-> -8])
    @@ (<<43751500, -7, -12156300, -7>> :> [k |-> "fin", m |-> 16626075, e |-> -8])
    @@ (<<60000000, -6, 95846000, -9>> :> [k |-> "fin", m |-> 14805691, e |-> -7])
    @@ (<<60798500, -7, -16364000, -7>> :> [k |-> "fin", m |-> 52148007, e |-> -9])
    @@ (<<60799500, -7, -16364000, -7>> :> [k |-> "fin", m |-> 52146603, e |-> -9])
    @@ (<<67409000, -7, 17540000, -7>> :> [k |-> "fin", m |-> 28416538, e |-> -6])
    @@ (<<67410000, -7, 17540000, -7>> :> [k |-> "fin", m |-> 28417277, e |-> -6])
    @@ (<<90000000, -6, 11000000, -7>> :> [k |-> "fin", m |-> 14114541, e |-> -5])
    @@ (<<90000000, -6, 95846000, -9>> :> [k |-> "fin", m |-> 15392399, e |-> -7])
    @@ (<<90000100, -6, 95846000, -9>> :> [k |-> "fin", m |-> 15392401, e |-> -7])
    @@ (<<93885000, -6, -12530000, -7>> :> [k |-> "fin", m |-> 33754909, e |-> -10])
    @@ (<<94375150, -6, -12156300, -7>> :> [k |-> "fin", m |-> 39746948, e |-> -10])
    @@ (<<95000000, -6, 95846000, -9>> :> [k |-> "fin", m |-> 15472371, e |-> -7])
    @@ (<<96079950, -6, -16364000, -7>> :> [k |-> "fin", m |-> 56966526, e |-> -11])
    @@ (<<96741000, -6, 17540000, -7>> :> [k |-> "fin", m |-> 30392116, e |-> -4])

Cos(x) == IF IsFinite(x) THEN CosTable[<<x.m, x.e>>] ELSE NaN

Sin(x) == IF IsFinite(x) THEN SinTable[<<x.m, x.e>>] ELSE NaN

\* x ** p, p a nonzero real that is no integer: NaN propagates, a negative
\* base gives NaN, a zero base gives 0 or +inf with the sign of p.
Pow(x, p) ==
    IF IsNaN(x) THEN NaN
    ELSE IF IsInf(x) THEN (IF x.m < 0 THEN NaN ELSE IF p.m > 0 THEN PosInf ELSE Zero)
    ELSE IF x.m < 0 THEN NaN
    ELSE IF x.m = 0 THEN (IF p.m > 0 THEN Zero ELSE PosInf)
    ELSE PowTable[<<x.m, x.e, p.m, p.e>>]

\* x ** n for the integer exponents 2 and 3.
RECURSIVE PowInt(_, _)
PowInt(x, n) == IF n = 1 THEN x ELSE Mul(PowInt(x, n - 1), x)

----------------------------------------------------------------------------
(* strings: sequences of characters *)

UpperToLower ==
       ("A" :> "a")
    @@ ("B" :> "b")
    @@ ("C" :> "c")
    @@ ("D" :> "d")
    @@ ("E" :> "e")
    @@ ("F" :> "f")
    @@ ("G" :> "g")
    @@ ("H" :> "h")
    @@ ("I" :> "i")
    @@ ("J" :> "j")
    @@ ("K" :> "k")
    @@ ("L" :> "l")
    @@ ("M" :> "m")
    @@ ("N" :> "n")
    @@ ("O" :> "o")
    @@ ("P" :> "p")
    @@ ("Q" :> "q")
    @@ ("R" :> "r")
    @@ ("S" :> "s")
    @@ ("T" :> "t")
    @@ ("U" :> "u")
    @@ ("V" :> "v")
    @@ ("W" :> "w")
    @@ ("X" :> "x")
    @@ ("Y" :> "y")
    @@ ("Z" :> "z")

\* The lower-casing left out: the model string compared as given.
str_lower_off(s) == s

\* str.lower()
str_lower(s) ==
    [i \in DOMAIN s |-> IF s[i] \in DOMAIN UpperToLower THEN UpperToLower[s[i]] ELSE s[i]]

Str_simple == <<"s", "i", "m", "p", "l", "e">>

Str_kasten1966 == <<"k", "a", "s", "t", "e", "n", "1", "9", "6", "6">>

Str_youngirvine1967 == <<"y", "o", "u", "n", "g", "i", "r", "v", "i", "n", "e", "1", "9", "6", "7">>

Str_kastenyoung1989 == <<"k", "a", "s", "t", "e", "n", "y", "o", "u", "n", "g", "1", "9", "8", "9">>

Str_gueymard1993 == <<"g", "u", "e", "y", "m", "a", "r", "d", "1", "9", "9", "3">>

Str_young1994 == <<"y", "o", "u", "n", "g", "1", "9", "9", "4">>

Str_pickering2002 == <<"p", "i", "c", "k", "e", "r", "i", "n", "g", "2", "0", "0", "2">>

Str_gueymard2003 == <<"g", "u", "e", "y", "m", "a", "r", "d", "2", "0", "0", "3">>

\* Another name as the default.
DefaultModelSimple == Str_simple

\* The default of the model parameter.
DefaultModel == Str_kastenyoung1989

----------------------------------------------------------------------------
(* the eight formulas on one element: z in degrees, zr = np.radians(z) *)

One == D(1, 0)

kastenyoung1989(zd, zr) ==
    Div(One, Add(Cos(zr),
                 Mul(D(50572, -5),
                     Pow(Add(D(607995, -5), Sub(D(90, 0), zd)), Neg(D(16364, -4))))))

kasten1966(zd, zr) ==
    Div(One, Add(Cos(zr),
                 Mul(D(15, -2), Pow(Sub(D(93885, -3), zd), Neg(D(1253, -3))))))

simple(zd, zr) == Div(One, Cos(zr))

pickering2002(zd, zr) ==
    Div(One,
        Sin(Radians(Add(Sub(D(90, 0), zd),
                        Div(D(244, 0),
                            Add(D(165, 0),
                                Mul(D(47, 0), Pow(Sub(D(90, 0), zd), D(11, -1)))))))))

youngirvine1967(zd, zr) ==
    LET sec_zen == Div(One, Cos(zr))
    IN  Mul(sec_zen, Sub(One, Mul(D(12, -4), Sub(Mul(sec_zen, sec_zen), One))))

young1994(zd, zr) ==
    Div(Add(Add(Mul(D(1002432, -6), PowInt(Cos(zr), 2)),
                Mul(D(148386, -6), Cos(zr))),
            D(96467, -7)),
        Add(Add(Add(PowInt(Cos(zr), 3),
                    Mul(D(149864, -6), PowInt(Cos(zr), 2))),
                Mul(D(102963, -7), Cos(zr))),
            D(303978, -9)))

gueymard1993(zd, zr) ==
    Div(One, Add(Cos(zr),
                 Mul(Mul(D(176759, -8), zd),
                     Pow(Sub(D(9437515, -5), zd), Neg(D(121563, -5))))))

gueymard2003(zd, zr) ==
    Div(One, Add(Cos(zr),
                 Div(Mul(D(48353, -5), Pow(zd, D(95846, -6))),
                     Pow(Sub(D(96741, -3), zd), D(1754, -3)))))

----------------------------------------------------------------------------
(* values: a scalar, a 0-d or 1-d ndarray, or a pandas Series *)

Scalar(x) == [shape |-> "scalar", vals |-> <<x>>, index |-> <<>>]

NdArray(xs) == [shape |-> "ndarray", vals |-> xs, index |-> <<>>]

Series(xs, idx) == [shape |-> "series", vals |-> xs, index |-> idx]

\* A local variable the call has not assigned yet.
Unbound == [shape |-> "unbound", vals |-> <<>>, index |-> <<>>]

\* The shape of a ufunc's or an operator's result: an ndarray for a 1-d
\* operand, a numpy scalar for a scalar or 0-d operand.
ResultShape(v) == IF v.shape \in {"scalar", "ndarray0d"} THEN "scalar" ELSE "ndarray"

\* The mask left out: every element reaches the formula.
MaskElementOff(x) == x

\* zenith >= 90 in place of zenith > 90.
MaskElementInclusive(x) == IF Gt(x, D(90, 0)) \/ x = D(90, 0) THEN NaN ELSE x

\* zenith > 90 selects NaN, anything else (NaN included) the element itself.
MaskElement(x) == IF Gt(x, D(90, 0)) THEN NaN ELSE x

\* np.where(zenith > 90, np.nan, zenith): always an ndarray, 0-d for a scalar.
np_where(zen) ==
    [shape |-> IF zen.shape = "scalar" THEN "ndarray0d" ELSE "ndarray",
     vals  |-> [i \in DOMAIN zen.vals |-> MaskElement(zen.vals[i])],
     index |-> <<>>]

\* np.radians(z)
np_radians(v) ==
    [shape |-> ResultShape(v),
     vals  |-> [i \in DOMAIN v.vals |-> Radians(v.vals[i])],
     index |-> <<>>]

\* The chain with a default formula in place of the raising else branch.
BranchFallback(mdl) ==
    IF Str_kastenyoung1989 = mdl THEN "kastenyoung1989"
    ELSE IF Str_kasten1966 = mdl THEN "kasten1966"
    ELSE IF Str_simple = mdl THEN "simple"
    ELSE IF Str_pickering2002 = mdl THEN "pickering2002"
    ELSE IF Str_youngirvine1967 = mdl THEN "youngirvine1967"
    ELSE IF Str_young1994 = mdl THEN "young1994"
    ELSE IF Str_gueymard1993 = mdl THEN "gueymard1993"
    ELSE IF Str_gueymard2003 = mdl THEN "gueymard2003"
    ELSE "kastenyoung1989"

\* The chain without its last elif: gueymard2003 reaches the else branch.
BranchWithoutLast(mdl) ==
    IF Str_kastenyoung1989 = mdl THEN "kastenyoung1989"
    ELSE IF Str_kasten1966 = mdl THEN "kasten1966"
    ELSE IF Str_simple = mdl THEN "simple"
    ELSE IF Str_pickering2002 = mdl THEN "pickering2002"
    ELSE IF Str_youngirvine1967 = mdl THEN "youngirvine1967"
    ELSE IF Str_young1994 = mdl THEN "young1994"
    ELSE IF Str_gueymard1993 = mdl THEN "gueymard1993"
    ELSE "else"

\* The chain with the bodies of the two gueymard branches exchanged.
BranchSwapped(mdl) ==
    IF Str_kastenyoung1989 = mdl THEN "kastenyoung1989"
    ELSE IF Str_kasten1966 = mdl THEN "kasten1966"
    ELSE IF Str_simple = mdl THEN "simple"
    ELSE IF Str_pickering2002 = mdl THEN "pickering2002"
    ELSE IF Str_youngirvine1967 = mdl THEN "youngirvine1967"
    ELSE IF Str_young1994 = mdl THEN "young1994"
    ELSE IF Str_gueymard1993 = mdl THEN "gueymard2003"
    ELSE IF Str_gueymard2003 = mdl THEN "gueymard1993"
    ELSE "else"

\* The if/elif chain: the branch a lower-cased model string takes.
Branch(mdl) ==
    IF Str_kastenyoung1989 = mdl THEN "kastenyoung1989"
    ELSE IF Str_kasten1966 = mdl THEN "kasten1966"
    ELSE IF Str_simple = mdl THEN "simple"
    ELSE IF Str_pickering2002 = mdl THEN "pickering2002"
    ELSE IF Str_youngirvine1967 = mdl THEN "youngirvine1967"
    ELSE IF Str_young1994 = mdl THEN "young1994"
    ELSE IF Str_gueymard1993 = mdl THEN "gueymard1993"
    ELSE IF Str_gueymard2003 = mdl THEN "gueymard2003"
    ELSE "else"

\* The expression a branch assigns to am, on one element.
BranchElement(b, zd, zr) ==
    CASE b = "kastenyoung1989" -> kastenyoung1989(zd, zr)
      [] b = "kasten1966"      -> kasten1966(zd, zr)
      [] b = "simple"          -> simple(zd, zr)
      [] b = "pickering2002"   -> pickering2002(zd, zr)
      [] b = "youngirvine1967" -> youngirvine1967(zd, zr)
      [] b = "young1994"       -> young1994(zd, zr)
      [] b = "gueymard1993"    -> gueymard1993(zd, zr)
      [] b = "gueymard2003"    -> gueymard2003(zd, zr)

\* The branch's expression on whole values, element by element.
BranchValue(b, zv, zrv) ==
    [shape |-> ResultShape(zv),
     vals  |-> [i \in DOMAIN zv.vals |-> BranchElement(b, zv.vals[i], zrv.vals[i])],
     index |-> <<>>]

\* The Series never rebuilt: the bare ndarray returned.
WrappedNever(amv, zen) == amv

\* pd.Series(am, index=zenith.index) when zenith is a Series, else am.
Wrapped(amv, zen) ==
    IF zen.shape = "series" THEN Series(amv.vals, zen.index) ELSE amv

\* raise ValueError('%s is not a valid model for relativeairmass', model)
InvalidModel(mdl) ==
    [type |-> "ValueError",
     args |-> <<"%s is not a valid model for relativeairmass", mdl>>]

NoError == [type |-> "none", args |-> <<>>]

Returned(v) == [kind |-> "return", value |-> v, error |-> NoError]

Raised(err) == [kind |-> "raise", value |-> Unbound, error |-> err]

Pending == [kind |-> "pending", value |-> Unbound, error |-> NoError]

\* The model parameter as the call binds it: the argument, or the default.
Bind(a) == IF a.given THEN a.value ELSE DefaultModel

\* The whole call as a function of its two arguments.
get_relative_airmass(zen, mdl) ==
    LET zv  == np_where(zen)
        zrv == np_radians(zv)
        lm  == str_lower(mdl)
    IN  IF Branch(lm) = "else" THEN Raised(InvalidModel(lm))
        ELSE Returned(Wrapped(BranchValue(Branch(lm), zv, zrv), zen))

----------------------------------------------------------------------------
(* the inputs of a call *)

\* Zenith angles drawn as a scalar: below, at and above the horizon, NaN.
ScalarVals == {D(-30, 0), D(0, 0), D(60, 0), D(90, 0), D(900001, -4), D(95, 0), NaN}

\* Zenith angles drawn as the elements of a sequence.
ElemVals == {D(60, 0), D(90, 0), D(900001, -4), D(95, 0)}

\* Index labels of a Series.
Labels == {"t0", "t1"}

SeqsUpTo(S, n) == UNION {[1..k -> S] : k \in 0..n}

ZenithInputs ==
    {Scalar(x) : x \in ScalarVals}
    \cup {NdArray(xs) : xs \in SeqsUpTo(ElemVals, MaxLen)}
    \cup UNION {{Series(xs, idx) : xs \in [1..k -> ElemVals], idx \in [1..k -> Labels]}
                : k \in 0..MaxLen}

\* Model strings drawn: the eight names, a spelling of each with capitals,
\* and strings that are no name.
ModelStrings ==
    {Str_simple,
     Str_kasten1966,
     Str_youngirvine1967,
     Str_kastenyoung1989,
     Str_gueymard1993,
     Str_young1994,
     Str_pickering2002,
     Str_gueymard2003,
     <<"S", "I", "M", "P", "L", "E">>,
     <<"K", "a", "s", "t", "e", "n", "1", "9", "6", "6">>,
     <<"Y", "o", "u", "n", "g", "I", "r", "v", "i", "n", "e", "1", "9", "6", "7">>,
     <<"K", "a", "s", "t", "e", "n", "Y", "o", "u", "n", "g", "1", "9", "8", "9">>,
     <<"G", "U", "E", "Y", "M", "A", "R", "D", "1", "9", "9", "3">>,
     <<"y", "O", "U", "N", "G", "1", "9", "9", "4">>,
     <<"P", "i", "c", "k", "e", "r", "i", "n", "G", "2", "0", "0", "2">>,
     <<"g", "u", "e", "y", "m", "a", "r", "D", "2", "0", "0", "3">>,
     <<"n", "o", "t", "_", "a", "_", "m", "o", "d", "e", "l">>,
     <<"N", "o", "t", "_", "A", "_", "M", "o", "d", "e", "l">>,
     <<>>,
     <<"k", "a", "s", "t", "e", "n", "y", "o", "u", "n", "g">>}

\* The model argument: a string, or left out.
ModelArgs ==
    {[given |-> FALSE, value |-> <<>>]}
    \cup {[given |-> TRUE, value |-> s] : s \in ModelStrings}

----------------------------------------------------------------------------
(* one call, statement by statement; pc names the line about to run *)

Init ==
    /\ arg \in ModelArgs
    /\ zenith \in ZenithInputs
    /\ pc = "line94"
    /\ model = Bind(arg)
    /\ z = Unbound
    /\ zenith_rad = Unbound
    /\ am = Unbound
    /\ outcome = Pending

\* z = np.where(zenith > 90, np.nan, zenith)
Mask ==
    /\ pc = "line94"
    /\ z' = np_where(zenith)
    /\ pc' = "line95"
    /\ UNCHANGED <<arg, zenith, model, zenith_rad, am, outcome>>

\* zenith_rad = np.radians(z)
ToRadians ==
    /\ pc = "line95"
    /\ zenith_rad' = np_radians(z)
    /\ pc' = "line97"
    /\ UNCHANGED <<arg, zenith, model, z, am, outcome>>

\* model = model.lower()
LowerModel ==
    /\ pc = "line97"
    /\ model' = str_lower(model)
    /\ pc' = "line99"
    /\ UNCHANGED <<arg, zenith, z, zenith_rad, am, outcome>>

\* One of the eight branches assigns am.
ComputeAirmass ==
    /\ pc = "line99"
    /\ Branch(model) # "else"
    /\ am' = BranchValue(Branch(model), z, zenith_rad)
    /\ pc' = "line127"
    /\ UNCHANGED <<arg, zenith, model, z, zenith_rad, outcome>>

\* The else branch raises.
RaiseInvalidModel ==
    /\ pc = "line99"
    /\ Branch(model) = "else"
    /\ outcome' = Raised(InvalidModel(model))
    /\ pc' = "raised"
    /\ UNCHANGED <<arg, zenith, model, z, zenith_rad, am>>

\* if isinstance(zenith, pd.Series): am = pd.Series(am, index=zenith.index)
WrapSeries ==
    /\ pc = "line127"
    /\ am' = Wrapped(am, zenith)
    /\ pc' = "line130"
    /\ UNCHANGED <<arg, zenith, model, z, zenith_rad, outcome>>

\* return am
Return ==
    /\ pc = "line130"
    /\ outcome' = Returned(am)
    /\ pc' = "returned"
    /\ UNCHANGED <<arg, zenith, model, z, zenith_rad, am>>

Next ==
    \/ Mask
    \/ ToRadians
    \/ LowerModel
    \/ ComputeAirmass
    \/ RaiseInvalidModel
    \/ WrapSeries
    \/ Return

Spec == Init /\ [][Next]_vars

----------------------------------------------------------------------------
(* what the properties are stated with *)

Terminal == pc \in {"returned", "raised"}

EightNames ==
    {Str_simple, Str_kasten1966, Str_youngirvine1967, Str_kastenyoung1989,
     Str_gueymard1993, Str_young1994, Str_pickering2002, Str_gueymard2003}

UpperAlphabet == <<"A", "B", "C", "D", "E", "F", "G", "H", "I", "J", "K", "L", "M", "N", "O", "P", "Q", "R", "S", "T", "U", "V", "W", "X", "Y", "Z">>

LowerAlphabet == <<"a", "b", "c", "d", "e", "f", "g", "h", "i", "j", "k", "l", "m", "n", "o", "p", "q", "r", "s", "t", "u", "v", "w", "x", "y", "z">>

\* The lower-cased form of a string, letter by letter from the two alphabets.
LowerCaseForm(s) ==
    [i \in DOMAIN s |->
        IF \E j \in 1..26 : UpperAlphabet[j] = s[i]
        THEN LowerAlphabet[CHOOSE j \in 1..26 : UpperAlphabet[j] = s[i]]
        ELSE s[i]]

\* The model string the caller selected, case-normalized.
Selected == LowerCaseForm(IF arg.given THEN arg.value ELSE Str_kastenyoung1989)

AboveHorizon(x) == Gt(x, D(90, 0))

Result(i) == outcome.value.vals[i]

\* The formula the specification's table gives for a name, on the masked
\* degrees zd and their radians zr.
TableFormula(n, zd, zr) ==
    CASE n = Str_simple ->
           Div(One, Cos(zr))
      [] n = Str_kasten1966 ->
           Div(One, Add(Cos(zr), Mul(D(15, -2), Pow(Sub(D(93885, -3), zd), D(-1253, -3)))))
      [] n = Str_youngirvine1967 ->
           LET sec == Div(One, Cos(zr))
           IN  Mul(sec, Sub(One, Mul(D(12, -4), Sub(PowInt(sec, 2), One))))
      [] n = Str_kastenyoung1989 ->
           Div(One, Add(Cos(zr),
                        Mul(D(50572, -5),
                            Pow(Add(D(607995, -5), Sub(D(90, 0), zd)), D(-16364, -4)))))
      [] n = Str_gueymard1993 ->
           Div(One, Add(Cos(zr),
                        Mul(Mul(D(176759, -8), zd),
                            Pow(Sub(D(9437515, -5), zd), D(-121563, -5)))))
      [] n = Str_young1994 ->
           Div(Add(Add(Mul(D(1002432, -6), PowInt(Cos(zr), 2)),
                       Mul(D(148386, -6), Cos(zr))),
                   D(96467, -7)),
               Add(Add(Add(PowInt(Cos(zr), 3), Mul(D(149864, -6), PowInt(Cos(zr), 2))),
                       Mul(D(102963, -7), Cos(zr))),
                   D(303978, -9)))
      [] n = Str_pickering2002 ->
           Div(One, Sin(Radians(Add(Sub(D(90, 0), zd),
                                    Div(D(244, 0),
                                        Add(D(165, 0),
                                            Mul(D(47, 0),
                                                Pow(Sub(D(90, 0), zd), D(11, -1)))))))))
      [] n = Str_gueymard2003 ->
           Div(One, Add(Cos(zr),
                        Div(Mul(D(48353, -5), Pow(zd, D(95846, -6))),
                            Pow(Sub(D(96741, -3), zd), D(1754, -3)))))

----------------------------------------------------------------------------
(* the properties *)

\* C1 (horizon masking): under each of the eight models the call returns, and
\* every output element whose input zenith is strictly greater than 90 is NaN.
C1_HorizonMasking ==
    \A n \in EightNames :
        (Terminal /\ Selected = n) =>
            /\ pc = "returned"
            /\ Len(outcome.value.vals) = Len(zenith.vals)
            /\ \A i \in DOMAIN zenith.vals :
                   AboveHorizon(zenith.vals[i]) => IsNaN(Result(i))

\* A returned sequence with an element above the horizon masked to NaN next
\* to an element at or below it that carries a finite airmass.
C1_Witness ==
    /\ pc = "returned"
    /\ zenith.shape = "ndarray"
    /\ \E i, j \in DOMAIN zenith.vals :
           /\ AboveHorizon(zenith.vals[i]) /\ IsNaN(Result(i))
           /\ ~AboveHorizon(zenith.vals[j]) /\ IsFinite(Result(j))

\* C2 (unknown model rejection): a model string that lower-cases to none of
\* the eight names ends the call with the ValueError that carries the
\* lower-cased string, whatever the zenith; no airmass is computed or returned.
C2_UnknownModelRejected ==
    (Terminal /\ Selected \notin EightNames) =>
        /\ pc = "raised"
        /\ outcome = Raised(InvalidModel(Selected))
        /\ am = Unbound

\* A rejected call whose string has capitals and whose zeniths are all above 90.
C2_Witness ==
    /\ pc = "raised"
    /\ arg.given
    /\ arg.value # Selected
    /\ zenith.vals # <<>>
    /\ \A i \in DOMAIN zenith.vals : AboveHorizon(zenith.vals[i])
    /\ outcome.error.type = "ValueError"

\* C3 (no other failure): with a model string that matches one of the eight
\* names case-insensitively the call returns a value, whatever the shape and
\* range of the zenith.
C3_NoOtherFailure ==
    (Terminal /\ Selected \in EightNames) =>
        /\ pc = "returned"
        /\ outcome.kind = "return"
        /\ outcome.error = NoError
        /\ outcome.value.shape \in {"scalar", "ndarray", "series"}

\* A returned call on a negative zenith under a name spelled with capitals.
C3_Witness ==
    /\ pc = "returned"
    /\ arg.given
    /\ arg.value # Selected
    /\ zenith = Scalar(D(-30, 0))
    /\ Selected = Str_gueymard2003

\* C4 (shape and label preservation): the returned value has the shape of the
\* zenith (scalar, sequence, labeled sequence), its length, its labels in
\* their order, and element i is the selected formula on the masked element i.
C4_ShapePreserved ==
    pc = "returned" =>
        /\ outcome.value.shape = zenith.shape
        /\ outcome.value.index = zenith.index
        /\ DOMAIN outcome.value.vals = DOMAIN zenith.vals
        /\ \A i \in DOMAIN zenith.vals :
               LET zi == IF AboveHorizon(zenith.vals[i]) THEN NaN ELSE zenith.vals[i]
               IN  Result(i) = TableFormula(Selected, zi, Radians(zi))

\* A returned Series of two different elements under two different labels.
C4_Witness ==
    /\ pc = "returned"
    /\ zenith.shape = "series"
    /\ zenith.index = <<"t1", "t0">>
    /\ zenith.vals[1] # zenith.vals[2]
    /\ Result(1) # Result(2)
    /\ outcome.value.index = <<"t1", "t0">>

\* C5 (case insensitivity): the outcome of a call with model string m, value
\* or error, is the outcome of the call with the lower-cased form of m.
C5_CaseInsensitive ==
    (Terminal /\ arg.given) =>
        outcome = get_relative_airmass(zenith, LowerCaseForm(arg.value))

\* A returned call whose model string is not its own lower-cased form.
C5_Witness ==
    /\ pc = "returned"
    /\ arg.given
    /\ arg.value # LowerCaseForm(arg.value)
    /\ \E i \in DOMAIN zenith.vals : IsFinite(Result(i))

\* C6 (default model): a call without a model argument ends as the call with
\* model "kastenyoung1989" on the same zenith.
C6_DefaultModel ==
    (Terminal /\ ~arg.given) =>
        outcome = get_relative_airmass(zenith, Str_kastenyoung1989)

\* A returned call without a model argument, with a finite airmass.
C6_Witness ==
    /\ pc = "returned"
    /\ ~arg.given
    /\ \E i \in DOMAIN zenith.vals : IsFinite(Result(i))

\* C7 (strict horizon boundary): an element at or below 90, 90 itself
\* included, reaches the formula unchanged; under kastenyoung1989 a zenith of
\* exactly 90 gives the finite airmass of the formula (37.9 within 0.5) and a
\* zenith of 90.0001 gives NaN.
C7_StrictBoundary ==
    /\ pc # "line94" =>
           \A i \in DOMAIN zenith.vals :
               ~AboveHorizon(zenith.vals[i]) => z.vals[i] = zenith.vals[i]
    /\ (pc = "returned" /\ Selected = Str_kastenyoung1989) =>
           \A i \in DOMAIN zenith.vals :
               /\ zenith.vals[i] = D(90, 0) =>
                      /\ IsFinite(Result(i))
                      /\ Gt(Result(i), D(374, -1))
                      /\ Gt(D(384, -1), Result(i))
               /\ zenith.vals[i] = D(900001, -4) => IsNaN(Result(i))

\* Returned kastenyoung1989 calls exist on 90 and on 90.0001; this is the
\* one on exactly 90, after the mask left it alone.
C7_Witness ==
    /\ pc = "returned"
    /\ Selected = Str_kastenyoung1989
    /\ zenith = Scalar(D(90, 0))
    /\ z.vals = <<D(90, 0)>>
    /\ IsFinite(Result(1))

\* C8 (`simple` divergence): under model "simple" a zenith of exactly 90
\* returns an infinite or NaN airmass.
C8_SimpleDivergesAt90 ==
    (pc = "returned" /\ Selected = Str_simple) =>
        \A i \in DOMAIN zenith.vals :
            zenith.vals[i] = D(90, 0) => (IsInf(Result(i)) \/ IsNaN(Result(i)))

\* C10 (formula dispatch): each of the eight names returns, never raises, and
\* returns the formula the table gives for that name on the masked degrees z
\* and their radians, the masking being the same under every name.
C10_DispatchOneToOne ==
    \A n \in EightNames :
        (Terminal /\ Selected = n) =>
            /\ pc = "returned"
            /\ z = np_where(zenith)
            /\ zenith_rad = np_radians(z)
            /\ \A i \in DOMAIN z.vals :
                   Result(i) = TableFormula(n, z.vals[i], zenith_rad.vals[i])

\* A returned pickering2002 call with a finite airmass that no other name's
\* formula gives on that element.
C10_Witness ==
    /\ pc = "returned"
    /\ Selected = Str_pickering2002
    /\ \E i \in DOMAIN z.vals :
           /\ IsFinite(Result(i))
           /\ \A n \in EightNames \ {Str_pickering2002} :
                  Result(i) # TableFormula(n, z.vals[i], zenith_rad.vals[i])

====
